---- MODULE Spec2Model ----
(***************************************************************************)
(* A model of the browser-side session layer of base_react_project:         *)
(* Session (src/src/Handlers/Session.ts), History                           *)
(* (src/src/Handlers/History.ts) and the injected configuration             *)
(* (src/src/constants.js).  User, Communicator, Chat, Feedback, Settings    *)
(* and getSizeInBytes are imported by Session.ts but their files are not    *)
(* part of the sources at hand; they are modelled from the specification.   *)
(*                                                                         *)
(* JavaScript values are represented as follows.                            *)
(*   - an optional value (a field that may be undefined, an omitted         *)
(*     argument) is a sequence: <<>> is undefined, <<v>> is the value v;    *)
(*   - a configuration flag is one of the strings "true", "false"           *)
(*     (the booleans), "'true'", "'false'" (the non-empty strings) and      *)
(*     "undefined";                                                         *)
(*   - a string payload is a sequence of characters of Alphabet;            *)
(*   - an error is a record [type, msg, cause].                             *)
(***************************************************************************)
EXTENDS Integers, Sequences, FiniteSets, TLC

VARIABLES
    constants,   \* the injected configuration (constants.js)
    session,     \* the fields of the Session object under construction / in use
    ctor,        \* the outcome of `new Session(session_id)` as the caller sees it
    created,     \* the collaborator objects constructed so far, in order
    console,     \* what was written with console.error
    lastOp,      \* the last public method call and what its caller observed
    getRequest,  \* the promise History.getHistory obtained from the Communicator
    proxy,       \* the proxy server's handling of one request (api.ts)
    build,       \* the webpack build: webpack.common.js up to the loaded bundle
    disposal,    \* Session[Symbol.dispose]: the calls made and what they released
    inflight     \* the requests of concurrent getHistory and sendChat calls

vars == <<constants, session, ctor, created, console, lastOp, getRequest, proxy, build, disposal, inflight>>

-----------------------------------------------------------------------------
(* Bounds *)

\* longest text payload (characters)
MaxTextLen == 2
\* configured maxima reach from one byte above the empty chat payload up to this many
MaxConfigExtra == 2
\* largest session TTL
MaxTTL == 1

-----------------------------------------------------------------------------
(* JavaScript values *)

None == <<>>
Some(v) == <<v>>

\* if (v) ... for a configuration flag
Truthy(v) == v \in {"true", "'true'", "'false'"}

\* if (s) ... for an optional string: undefined and "" are falsy
TruthyString(s) == s # None /\ s[1] # ""

FlagValues == {"true", "false", "'true'", "'false'", "undefined"}

\* the readings of the clock
ClockValues == {0, 1}

\* one ASCII character and one character that takes two bytes in UTF-8
Alphabet == {"a", "U+00E9"}

RECURSIVE SeqsUpTo(_)
SeqsUpTo(n) ==
    IF n = 0 THEN {<<>>}
    ELSE LET shorter == SeqsUpTo(n - 1)
         IN  shorter \cup {Append(s, c) : s \in {t \in shorter : Len(t) = n - 1}, c \in Alphabet}

Texts == SeqsUpTo(MaxTextLen)

Utf8Width(c) == IF c = "a" THEN 1 ELSE 2

RECURSIVE Utf8Bytes(_)
Utf8Bytes(text) ==
    IF text = <<>> THEN 0 ELSE Utf8Width(Head(text)) + Utf8Bytes(Tail(text))

MaxTextBytes == 2 * MaxTextLen

\* bytes of JSON.stringify({question: ""}) and of JSON.stringify({settings: ""})
ChatEnvelope == 15
SettingsEnvelope == 15
\* bytes of JSON.stringify of a FeedbackObject whose string fields are empty
FeedbackEnvelope == 76

Envelope(kind) ==
    CASE kind = "ChatObject" -> ChatEnvelope
      [] kind = "SettingsObject" -> SettingsEnvelope
      [] kind = "FeedbackObject" -> FeedbackEnvelope

\* getSizeInBytes(obj): the bytes of the serialized object
getSizeInBytes(obj) == Envelope(obj.kind) + Utf8Bytes(obj.text)

\* the comparison with >= for >
ExceedsMaxLength_Inclusive(size, maxLength) == maxLength # None /\ size >= maxLength[1]

\* a > b where b may be undefined (a comparison with undefined is false)
ExceedsMaxLength(size, maxLength) == maxLength # None /\ size > maxLength[1]

Err(type, msg, cause) == [type |-> type, msg |-> msg, cause |-> cause]

-----------------------------------------------------------------------------
(* Configuration: constants.js *)

MaxLengthNumbers ==
    {0} \cup ((ChatEnvelope + 1) .. (ChatEnvelope + MaxConfigExtra))
        \cup {FeedbackEnvelope + MaxTextBytes}

MaxLengthValues == {None} \cup {Some(n) : n \in MaxLengthNumbers}

ExpirationTimeValues == {None} \cup {Some(n) : n \in 1 .. MaxTTL}

\* every configuration of the flags and the TTL, with one maximum size
ConstantsValues ==
    [ useauth        : {"true", "false", "undefined"},
      debug          : FlagValues,
      maxLength      : {Some(ChatEnvelope + 1)},
      expirationTime : ExpirationTimeValues ]

\* every maximum size, with boolean flags and one TTL
ValidationConstantsValues ==
    [ useauth        : {"true", "false"},
      debug          : {"true", "false"},
      maxLength      : MaxLengthValues,
      expirationTime : {Some(1)} ]

-----------------------------------------------------------------------------
(* The collaborators of Session *)

\* what the environment decides during one construction
CtorEnv ==
    [ identity     : {"resolved", "unresolved"},       \* the authorization provider
      anonymous    : {"ok", "noUserId"},               \* new User(true)
      communicator : {"ok", "Error", "nonError"},      \* new Communicator(...)
      chat         : {"ok", "Error"},                  \* new Chat(...)
      feedback     : {"ok", "Error"},                  \* new Feedback(...)
      settings     : {"ok", "Error"},                  \* new Settings(...)
      uuid         : {"uuid-1"},                       \* uuidv4()
      now          : ClockValues ]                     \* new Date()

\* new User(anonymous): [thrown, value]
NewUser(anonymous, env) ==
    IF anonymous
    THEN [ thrown |-> None,
           value  |-> [ anonymous |-> TRUE,
                        user_id   |-> IF env.anonymous = "ok"
                                      THEN Some("anon-user") ELSE None ] ]
    ELSE IF env.identity = "resolved"
    THEN [ thrown |-> None,
           value  |-> [ anonymous |-> FALSE, user_id |-> Some("auth-user") ] ]
    ELSE [ thrown |-> Some(Err("AuthorizationError", "identity not resolved", "none")),
           value  |-> [ anonymous |-> FALSE, user_id |-> None ] ]

\* new Communicator(session_id, user_id): [thrown, value]
NewCommunicator(session_id, user_id, env) ==
    [ thrown |-> CASE env.communicator = "ok" -> None
                   [] env.communicator = "Error" ->
                        Some(Err("Error", "Communicator", "none"))
                   [] env.communicator = "nonError" ->
                        Some(Err("nonError", "Communicator", "none")),
      value  |-> [ instance |-> "Communicator", session_id |-> session_id,
                   user_id |-> user_id ] ]

\* new Chat(c), new Feedback(c), new Settings(c): [thrown, value]
NewHandler(cls, outcome, communicator) ==
    [ thrown |-> IF outcome = "ok" THEN None ELSE Some(Err("Error", cls, "none")),
      value  |-> [ _communicator |-> communicator ] ]

\* new History(c) only stores the communicator
NewHistory(communicator) ==
    [ thrown |-> None, value |-> [ _communicator |-> communicator ] ]

-----------------------------------------------------------------------------
(* Session: construction *)

\* the fields of a Session before its constructor body runs
NewSession ==
    [ _chat |-> None, _feedback |-> None, _history |-> None, _settings |-> None,
      _user |-> None, _communicator |-> None,
      createdAt |-> None, expiresAt |-> None, session_id |-> None ]

\* the running state of a constructor call: the object, the exception in
\* flight (if any) and the objects constructed
Run(s, thrown, log) == [ s |-> s, thrown |-> thrown, log |-> log ]

_initializeUser(r, env) ==
    LET first ==
            IF r.s._user = None /\ Truthy(constants.useauth)
            THEN LET u == NewUser(FALSE, env)
                 IN  IF u.thrown # None
                     THEN Run(r.s, u.thrown, r.log)
                     ELSE Run([r.s EXCEPT !._user = Some(u.value)], None,
                              Append(r.log, "User(false)"))
            ELSE r
    IN  IF first.thrown # None THEN first
        ELSE LET u == NewUser(TRUE, env)
             IN  IF u.thrown # None
                 THEN Run(first.s, u.thrown, first.log)
                 ELSE Run([first.s EXCEPT !._user = Some(u.value)], None,
                          Append(first.log, "User(true)"))

\* the four handlers given each a Communicator of its own
ConstructHandlers_OwnCommunicators(r, env) ==
    LET c  == r.s._communicator[1]
        own(cls) == [ c EXCEPT !.instance = cls ]
    IN  Run([ r.s EXCEPT !._chat = Some(NewHandler("Chat", env.chat, own("Chat")).value),
                         !._feedback = Some(NewHandler("Feedback", env.feedback,
                                                       own("Feedback")).value),
                         !._history = Some(NewHistory(own("History")).value),
                         !._settings = Some(NewHandler("Settings", env.settings,
                                                       own("Settings")).value) ],
            None, r.log \o <<"Chat", "Feedback", "History", "Settings">>)

\* this._chat = new Chat(this._communicator); ... Feedback, History, Settings
ConstructHandlers(r, env) ==
      LET c  == r.s._communicator[1]
          h1 == NewHandler("Chat", env.chat, c)
          h2 == NewHandler("Feedback", env.feedback, c)
          h3 == NewHistory(c)
          h4 == NewHandler("Settings", env.settings, c)
          s1 == [r.s EXCEPT !._chat = Some(h1.value)]
          s2 == [s1 EXCEPT !._feedback = Some(h2.value)]
          s3 == [s2 EXCEPT !._history = Some(h3.value)]
          s4 == [s3 EXCEPT !._settings = Some(h4.value)]
      IN  IF h1.thrown # None THEN Run(r.s, h1.thrown, r.log)
          ELSE IF h2.thrown # None THEN Run(s1, h2.thrown, Append(r.log, "Chat"))
          ELSE IF h4.thrown # None
               THEN Run(s3, h4.thrown, r.log \o <<"Chat", "Feedback", "History">>)
          ELSE Run(s4, None, r.log \o <<"Chat", "Feedback", "History", "Settings">>)

\* an _initializeHandlers that signals the missing user as a SessionError
_initializeHandlers_UserSessionError(r, env) ==
    IF ~TruthyString(r.s.session_id)
    THEN Run(r.s, Some(Err("SessionError", "Session ID not defined", "none")), r.log)
    ELSE IF r.s._user = None \/ ~TruthyString(r.s._user[1].user_id)
    THEN Run(r.s, Some(Err("SessionError", "User not defined", "none")), r.log)
    ELSE ConstructHandlers(r, env)

_initializeHandlers(r, env) ==
    IF ~TruthyString(r.s.session_id)
    THEN Run(r.s, Some(Err("SessionError", "Session ID not defined", "none")), r.log)
    ELSE IF r.s._user = None \/ ~TruthyString(r.s._user[1].user_id)
    THEN Run(r.s, Some(Err("AuthorizationError", "User not defined", "none")), r.log)
    ELSE ConstructHandlers(r, env)

\* an _initialize that ignores the argument
AdoptSessionId_AlwaysFresh(session_id, env) == env.uuid

\* the session id _initialize adopts: the argument when it is truthy, else a fresh one
AdoptSessionId(session_id, env) ==
    IF TruthyString(session_id) THEN session_id[1] ELSE env.uuid

_initialize(r, session_id, env) ==
    LET u == _initializeUser(r, env)
    IN  IF u.thrown # None THEN u
        ELSE IF u.s._user # None
        THEN LET sid == AdoptSessionId(session_id, env)
                 s1  == [u.s EXCEPT !.session_id = Some(sid)]
                 \* this._user.user_id as string: undefined stays undefined
                 c   == NewCommunicator(sid, s1._user[1].user_id, env)
             IN  IF c.thrown # None THEN Run(s1, c.thrown, u.log)
                 ELSE _initializeHandlers(
                          Run([s1 EXCEPT !._communicator = Some(c.value)], None,
                              Append(u.log, "Communicator")),
                          env)
        ELSE Run(u.s, Some(Err("AuthorizationError", "User not authorized", "none")),
                 u.log)

\* a catch block that logs and swallows whatever the debug switch says
CatchInitialize_Swallow(error) == [ thrown |-> None, logged |-> Some(error) ]

\* a catch block that wraps every error, the AuthorizationError too
CatchInitialize_WrapAll(error) ==
    IF Truthy(constants.debug)
    THEN [ thrown |-> None, logged |-> Some(error) ]
    ELSE [ thrown |-> Some(Err("SessionError", "Session initialization failed", error.type)),
           logged |-> None ]

\* the catch block of the constructor: [thrown, logged]
CatchInitialize(error) ==
    IF Truthy(constants.debug)
    THEN [ thrown |-> None, logged |-> Some(error) ]
    ELSE IF error.type = "AuthorizationError"
    THEN [ thrown |-> Some(error), logged |-> None ]
    ELSE IF error.type # "nonError"
    THEN [ thrown |-> Some(Err("SessionError", "Session initialization failed", error.type)),
           logged |-> None ]
    ELSE [ thrown |-> Some(Err("SessionError", "Session initialization failed: Unknown error",
                               "unknown")),
           logged |-> None ]

\* an expiry that is the time of creation
ExpiresAt_NoTTL(createdAt, expirationTime) ==
    IF expirationTime = None
    THEN [ valid |-> FALSE, time |-> 0 ]
    ELSE [ valid |-> TRUE, time |-> createdAt ]

\* new Date(createdAt.getTime() + constants.expirationTime)
ExpiresAt(createdAt, expirationTime) ==
    IF expirationTime = None
    THEN [ valid |-> FALSE, time |-> 0 ]
    ELSE [ valid |-> TRUE, time |-> createdAt + expirationTime[1] ]

\* constructor(session_id?)
Construct(session_id, env) ==
    /\ ctor.state = "none"
    /\ LET r == _initialize(Run(NewSession, None, <<>>), session_id, env)
       IN  IF r.thrown = None
           THEN /\ session' = [r.s EXCEPT
                      !.createdAt = Some([valid |-> TRUE, time |-> env.now]),
                      !.expiresAt = Some(ExpiresAt(env.now, constants.expirationTime))]
                /\ ctor' = [ state |-> "returned", arg |-> session_id, thrown |-> None,
                             failure |-> None ]
                /\ console' = console
                /\ created' = r.log
           ELSE LET c == CatchInitialize(r.thrown[1])
                IN  /\ session' = r.s
                    /\ ctor' = [ state   |-> IF c.thrown = None THEN "returned" ELSE "thrown",
                                 arg     |-> session_id,
                                 thrown  |-> c.thrown,
                                 failure |-> r.thrown ]
                    /\ console' = IF c.logged = None THEN console
                                  ELSE console \cup {c.logged[1].type}
                    /\ created' = r.log
    /\ UNCHANGED <<constants, lastOp, getRequest, proxy, build, disposal, inflight>>


SessionIdArgs == {None, Some(""), Some("sid-1")}

-----------------------------------------------------------------------------
(* Session: the public methods.  Each operator gives what the caller of one *)
(* call observes: how the call ended, its value, and how often the handler  *)
(* behind it was invoked and the network used.                              *)

ChatObject(text) == [ kind |-> "ChatObject", text |-> text ]
FeedbackObject(text) == [ kind |-> "FeedbackObject", text |-> text ]
SettingsObject(text) == [ kind |-> "SettingsObject", text |-> text ]

\* what a handler method did: its value and the network calls it made
Delegated(value, network) == [ value |-> value, network |-> network ]

\* the call returned `value`; `delegate` is what the handler behind it did, if invoked
Returned(op, arg, value, delegate) ==
    [ op |-> op, arg |-> arg, outcome |-> "returned", thrown |-> None, value |-> value,
      delegated |-> Len(delegate),
      delegateValue |-> IF delegate = None THEN None ELSE delegate[1].value,
      network |-> IF delegate = None THEN 0 ELSE delegate[1].network ]

\* the call threw `error`
Thrown(op, arg, error, delegate) ==
    [ op |-> op, arg |-> arg, outcome |-> "thrown", thrown |-> Some(error), value |-> None,
      delegated |-> Len(delegate),
      delegateValue |-> IF delegate = None THEN None ELSE delegate[1].value,
      network |-> IF delegate = None THEN 0 ELSE delegate[1].network ]

\* this._x.method(...) where this._x is undefined
MemberOfUndefined(op, arg) ==
    Thrown(op, arg, Err("TypeError", "Cannot read properties of undefined", "none"), None)

\* Chat.sendQuestion: one POST /api/chat, the Message of the reply
Chat_sendQuestion(question, reply) == Delegated(Some(reply), 1)

\* Feedback.sendFeedback: one POST /api/feedback, whether it succeeded
Feedback_sendFeedback(feedback, reply) == Delegated(Some(reply), 1)

\* Settings.setSettings: one POST /api/settings, nothing returned
Settings_setSettings(settings) == Delegated(None, 1)

\* the validation of sendChat without the test for the empty question
InvalidQuestion_NoEmptyCheck(question) ==
    ExceedsMaxLength(getSizeInBytes(question), constants.maxLength)

\* question.question.length === 0 || getSizeInBytes(question) > constants.maxLength
InvalidQuestion(question) ==
    \/ Len(question.text) = 0
    \/ ExceedsMaxLength(getSizeInBytes(question), constants.maxLength)

sendChat(question, reply) ==
    IF InvalidQuestion(question)
    THEN Thrown("sendChat", Some(question),
                Err("ChatSessionError", "Invalid Question Length", "none"), None)
    ELSE IF session._chat = None THEN MemberOfUndefined("sendChat", Some(question))
    ELSE LET d == Chat_sendQuestion(question, reply)
         IN  Returned("sendChat", Some(question), d.value, Some(d))

\* the oversize branch of sendFeedback only logs
FeedbackLog(feedback) ==
    IF ExceedsMaxLength(getSizeInBytes(feedback), constants.maxLength)
    THEN {"Feedback too long"} ELSE {}

\* a sendFeedback that treats the oversized payload as sendChat does
sendFeedback_Throws(feedback, reply) ==
    IF ExceedsMaxLength(getSizeInBytes(feedback), constants.maxLength)
    THEN Thrown("sendFeedback", Some(feedback),
                Err("SessionError", "Feedback too long", "none"), None)
    ELSE IF session._feedback = None THEN MemberOfUndefined("sendFeedback", Some(feedback))
    ELSE LET d == Feedback_sendFeedback(feedback, reply)
         IN  Returned("sendFeedback", Some(feedback), d.value, Some(d))

sendFeedback(feedback, reply) ==
    IF session._feedback = None THEN MemberOfUndefined("sendFeedback", Some(feedback))
    ELSE LET d == Feedback_sendFeedback(feedback, reply)
         IN  Returned("sendFeedback", Some(feedback), d.value, Some(d))

\* a setSettings without the size check
setSettings_NoCheck(settings) ==
    IF session._settings = None THEN MemberOfUndefined("setSettings", Some(settings))
    ELSE LET d == Settings_setSettings(settings)
         IN  Returned("setSettings", Some(settings), None, Some(d))

\* setSettings returns nothing, whatever the handler returned
setSettings(settings) ==
    IF ExceedsMaxLength(getSizeInBytes(settings), constants.maxLength)
    THEN Thrown("setSettings", Some(settings),
                Err("SettingsSessionError", "Settings too long", "none"), None)
    ELSE IF session._settings = None THEN MemberOfUndefined("setSettings", Some(settings))
    ELSE LET d == Settings_setSettings(settings)
         IN  Returned("setSettings", Some(settings), None, Some(d))

\* Settings.getSettings: one GET /api/settings, the settings of the reply
Settings_getSettings == Delegated(Some("settings"), 1)

\* return this._settings.getSettings()
getSettings ==
    IF session._settings = None THEN MemberOfUndefined("getSettings", None)
    ELSE LET d == Settings_getSettings
         IN  Returned("getSettings", None, d.value, Some(d))

NoRequest == [ state |-> "none", response |-> None, error |-> None, unhandled |-> FALSE ]

\* a public method is called on an object the constructor handed out
Callable == ctor.state = "returned"

FullyInitialized ==
    /\ session._user # None
    /\ session._communicator # None
    /\ session.session_id # None
    /\ session._chat # None
    /\ session._feedback # None
    /\ session._history # None
    /\ session._settings # None

\* the constructor returned a fully initialized Session
Ready == ctor.state = "returned" /\ FullyInitialized

SendChat(text, reply) ==
    /\ Callable
    /\ lastOp' = sendChat(ChatObject(text), reply)
    /\ getRequest' = NoRequest
    /\ UNCHANGED <<constants, session, ctor, created, console, proxy, build, disposal, inflight>>

SendFeedback(text, reply) ==
    /\ Callable
    /\ lastOp' = sendFeedback(FeedbackObject(text), reply)
    /\ console' = console \cup FeedbackLog(FeedbackObject(text))
    /\ getRequest' = NoRequest
    /\ UNCHANGED <<constants, session, ctor, created, proxy, build, disposal, inflight>>

SetSettings(text) ==
    /\ Callable
    /\ lastOp' = setSettings(SettingsObject(text))
    /\ getRequest' = NoRequest
    /\ UNCHANGED <<constants, session, ctor, created, console, proxy, build, disposal, inflight>>

GetSettings ==
    /\ Callable
    /\ lastOp' = getSettings
    /\ getRequest' = NoRequest
    /\ UNCHANGED <<constants, session, ctor, created, console, proxy, build, disposal, inflight>>

-----------------------------------------------------------------------------
(* History.getHistory and the promise of Communicator.getRequest *)

\* return {history: response.data}, for the value `response` holds at that point
HistoryReturn(response) ==
    IF response = None
    THEN Thrown("getHistory", None,
                Err("TypeError", "Cannot read properties of undefined", "none"),
                Some(Delegated(None, 1)))
    ELSE Returned("getHistory", None, Some(response[1]),
                  Some(Delegated(Some(response[1]), 1)))

\* `let response` as the return statement finds it: the callback given to
\* then() runs only after the running code has returned, so the promise just
\* obtained has not assigned it
ResponseAtReturn(request) == request.response

\* Session.getHistory, which is History.getHistory
getHistory(request) ==
    IF session._history = None THEN MemberOfUndefined("getHistory", None)
    ELSE HistoryReturn(ResponseAtReturn(request))

GetHistory ==
    /\ Callable
    /\ LET request == [ NoRequest EXCEPT !.state = "pending" ]
       IN  /\ lastOp' = getHistory(request)
           /\ getRequest' = IF session._history = None THEN NoRequest ELSE request
    /\ UNCHANGED <<constants, session, ctor, created, console, proxy, build, disposal, inflight>>

\* the promise fulfils: then((res) => { response = res })
ResolveGetRequest(data) ==
    /\ getRequest.state = "pending"
    /\ getRequest' = [ getRequest EXCEPT !.state = "fulfilled", !.response = Some(data) ]
    /\ UNCHANGED <<constants, session, ctor, created, console, lastOp, proxy, build, disposal, inflight>>

\* the promise rejects: catch((error) => { console.error(...); throw error }),
\* whose own promise nobody holds
RejectGetRequest(error) ==
    /\ getRequest.state = "pending"
    /\ getRequest' = [ getRequest EXCEPT !.state = "rejected", !.error = Some(error),
                                         !.unhandled = TRUE ]
    /\ console' = console \cup {"Error getting history: "}
    /\ UNCHANGED <<constants, session, ctor, created, lastOp, proxy, build, disposal, inflight>>

Replies == {"message-1"}
ResponseData == {"history-1"}
TransportErrors == { Err("AxiosError", "Network Error", "none") }

-----------------------------------------------------------------------------
(* The proxy routes of the client server (api.ts).  A request is the route,  *)
(* whether the body carries the field the route asks for, and whether the    *)
(* session header passes checkSession.  `sends` are the calls of             *)
(* res.status(..).send(..) in order (the client receives the first),         *)
(* `backend` the calls made with axios.                                      *)

Routes == {"POST /chat", "POST /feedback", "GET /history", "GET /settings", "POST /settings"}

\* the body field a POST route asks for; a GET route reads none
Requests ==
    [ route : {"POST /chat", "POST /feedback", "POST /settings"},
      hasField : BOOLEAN, session : {"valid", "invalid"} ]
    \cup [ route : {"GET /history", "GET /settings"},
           hasField : {FALSE}, session : {"valid", "invalid"} ]

\* the feature flag of the server's configuration, constants.useAuth
ServerUseAuthValues == FlagValues

BackendCall(method, path) == [ method |-> method, path |-> path ]

\* what the synchronous part of a route handler did
Handled(sends, backend) == [ sends |-> sends, backend |-> backend ]

\* if (!req.body.x) res.status(400).send(...)
MissingField(req) == IF req.hasField THEN <<>> ELSE <<400>>

\* checkSession(res, id): answers the request itself when the id does not pass
checkSession(req) == IF req.session = "valid" THEN <<>> ELSE <<401>>

\* api.post('/chat'): the 400 branch does not return
PostChat(req) ==
    Handled(MissingField(req) \o checkSession(req), <<BackendCall("POST", "/api/chat")>>)

\* api.post('/feedback'): the 400 branch returns
PostFeedback(req) ==
    IF ~req.hasField THEN Handled(<<400>>, <<>>)
    ELSE Handled(<<>>, <<BackendCall("POST", "/api/feedback")>>)

\* api.get('/history')
GetHistoryRoute(req) ==
    Handled(checkSession(req), <<BackendCall("GET", "/api/history")>>)

\* api.get('/settings')
GetSettingsRoute(req) ==
    Handled(checkSession(req), <<BackendCall("GET", "/api/settings")>>)

\* a POST /settings that forwards whatever the configuration says
PostSettings_NoGate(req, useAuth) ==
    Handled(MissingField(req) \o checkSession(req), <<BackendCall("POST", "/api/settings")>>)

\* api.post('/settings'): the 400 branch does not return; if (constants.useAuth)
PostSettings(req, useAuth) ==
    IF Truthy(useAuth)
    THEN Handled(MissingField(req) \o checkSession(req),
                 <<BackendCall("POST", "/api/settings")>>)
    ELSE Handled(MissingField(req) \o checkSession(req) \o <<403>>, <<>>)

RouteHandler(req, useAuth) ==
    CASE req.route = "POST /chat" -> PostChat(req)
      [] req.route = "POST /feedback" -> PostFeedback(req)
      [] req.route = "GET /history" -> GetHistoryRoute(req)
      [] req.route = "GET /settings" -> GetSettingsRoute(req)
      [] req.route = "POST /settings" -> PostSettings(req, useAuth)

NoProxyRequest ==
    [ pc |-> "off", useAuth |-> "undefined", req |-> None, sends |-> <<>>, backend |-> <<>> ]

\* the server is up and has not received the request
ProxyListening(useAuth) == [ NoProxyRequest EXCEPT !.pc = "listening", !.useAuth = useAuth ]

\* the route handler runs up to its return
Receive(req) ==
    /\ proxy.pc = "listening"
    /\ LET h == RouteHandler(req, proxy.useAuth)
       IN  proxy' = [ proxy EXCEPT !.pc = IF h.backend = <<>> THEN "done" ELSE "waiting",
                                   !.req = Some(req),
                                   !.sends = h.sends,
                                   !.backend = h.backend ]
    /\ UNCHANGED <<constants, session, ctor, created, console, lastOp, getRequest, build, disposal, inflight>>

\* handleResponse(res, response, id) answers with the backend's response; a
\* send on a response already sent throws, which the catch answers with 500
BackendResolved(status) ==
    /\ proxy.pc = "waiting"
    /\ proxy' = [ proxy EXCEPT !.pc = "done",
                               !.sends = IF proxy.sends = <<>> THEN <<status>>
                                         ELSE proxy.sends \o <<status, 500>> ]
    /\ UNCHANGED <<constants, session, ctor, created, console, lastOp, getRequest, build, disposal, inflight>>

\* .catch(() => res.status(500).send(er.serverError))
BackendRejected ==
    /\ proxy.pc = "waiting"
    /\ proxy' = [ proxy EXCEPT !.pc = "done", !.sends = Append(proxy.sends, 500) ]
    /\ UNCHANGED <<constants, session, ctor, created, console, lastOp, getRequest, build, disposal, inflight>>

BackendStatuses == {200}

-----------------------------------------------------------------------------
(* The build configuration (webpack.common.js).  The contents of             *)
(* customerSettings.json, the module's `let` variables and the entries of    *)
(* process.env are optional values; an entry of process.env is a string.     *)

NodeEnvValues == {None, Some("development"), Some("production"), Some("test")}

\* the contents of customerSettings.json
CustomerSettings ==
    [ serverUri      : {Some("https://server")},
      clientUri      : {Some("https://client")},
      appAuthority   : {Some("authority-1")},
      appId          : {Some("app-1")},
      productTitle   : {Some("title-1")},
      maxLength      : {None, Some(ChatEnvelope + 1), Some(ChatEnvelope + MaxConfigExtra)},
      expirationTime : ExpirationTimeValues,
      useAuth        : {Some("true"), Some("false")} ]

\* process.env.X = v: the value is stored as its string
EnvString(v) == IF v = None THEN Some("undefined") ELSE v

\* process.env.X = n for a number n: the value is stored as its decimal string
EnvNumber(v) == IF v = None THEN Some("undefined") ELSE Some(ToString(v[1]))

\* a boolean assigned to process.env
EnvBoolean(b) == Some(IF b THEN "true" ELSE "false")

\* JSON.stringify(v): the source text of the value, none for undefined
JsonStringify(v) == IF v = None THEN None ELSE Some([ code |-> v[1] ])

\* the value a DefinePlugin definition gives the global it replaces
EvalDefine(code) == IF code = None THEN None ELSE Some(code[1].code)

\* let __SERVER__; let __APP_AUTHORITY__; ... (declared, not assigned)
DeclaredLets ==
    [ __SERVER__ |-> None, __APP_AUTHORITY__ |-> None, __APP_ID__ |-> None,
      __REDIRECT_URI__ |-> None, __PRODUCT_TITLE__ |-> None,
      __MAX_LENGTH__ |-> None, __EXPIRATION_TIME__ |-> None, __USEAUTH__ |-> None ]

\* the entries of process.env the build writes, before it runs
InitialEnv ==
    [ __DEBUG__ |-> None, __SERVER__ |-> None, __APP_AUTHORITY__ |-> None,
      __APP_ID__ |-> None, __PRODUCT_TITLE__ |-> None, __MAX_LENGTH__ |-> None,
      __EXPIRATION_TIME__ |-> None, __USEAUTH__ |-> None ]

\* `${base}/redirect.html`
RedirectUri(base) == Some(<<base[1], "/redirect.html">>)

\* the switch on process.env.NODE_ENV: [server, redirect, debug]
SwitchNodeEnv(nodeEnv, config, env) ==
    CASE nodeEnv = Some("development") ->
            [ server   |-> Some("http://localhost:3000"),
              redirect |-> RedirectUri(Some("http://localhost:3000")),
              debug    |-> EnvBoolean(TRUE) ]
      [] nodeEnv = Some("production") ->
            [ server   |-> config.serverUri,
              redirect |-> RedirectUri(config.clientUri),
              debug    |-> EnvBoolean(FALSE) ]
      [] OTHER ->
            [ server   |-> config.serverUri,
              redirect |-> RedirectUri(config.clientUri),
              debug    |-> env.__DEBUG__ ]

\* setupClientServer(): [lets, env]
setupClientServer(nodeEnv, config, lets, env) ==
    LET sw == SwitchNodeEnv(nodeEnv, config, env)
    IN  [ lets |-> [ lets EXCEPT !.__SERVER__ = sw.server,
                                 !.__REDIRECT_URI__ = sw.redirect ],
          env  |-> [ env EXCEPT !.__DEBUG__ = sw.debug,
                                !.__SERVER__ = EnvString(sw.server),
                                !.__APP_AUTHORITY__ = EnvString(config.appAuthority),
                                !.__APP_ID__ = EnvString(config.appId),
                                !.__PRODUCT_TITLE__ = EnvString(config.productTitle),
                                !.__MAX_LENGTH__ = EnvNumber(config.maxLength),
                                !.__EXPIRATION_TIME__ = EnvNumber(config.expirationTime),
                                !.__USEAUTH__ = EnvString(config.useAuth) ] ]

\* new DefinePlugin({...}) in common(env, argv)
DefinePlugin(lets, env) ==
    [ __SERVER__ |-> JsonStringify(lets.__SERVER__),
      __APP_AUTHORITY__ |-> JsonStringify(lets.__APP_AUTHORITY__),
      __APP_ID__ |-> JsonStringify(lets.__APP_ID__),
      __REDIRECT_URI__ |-> JsonStringify(lets.__REDIRECT_URI__),
      __PRODUCT_TITLE__ |-> JsonStringify(lets.__PRODUCT_TITLE__),
      __MAX_LENGTH__ |-> JsonStringify(lets.__MAX_LENGTH__),
      __EXPIRATION_TIME__ |-> JsonStringify(lets.__EXPIRATION_TIME__),
      __USEAUTH__ |-> JsonStringify(lets.__USEAUTH__),
      __DEBUG__ |-> JsonStringify(env.__DEBUG__) ]

\* a string value as a configuration flag: the strings 'true' and 'false'
StringFlag(v) ==
    IF v = None THEN "undefined"
    ELSE IF v[1] = "true" THEN "'true'"
    ELSE IF v[1] = "false" THEN "'false'"
    ELSE "undefined"

\* a boolean value as a configuration flag
BooleanFlag(v) == IF v = None THEN "undefined" ELSE v[1]

\* constants.js evaluated in the bundle
BundledConstants(defines) ==
    [ useauth        |-> BooleanFlag(EvalDefine(defines.__USEAUTH__)),
      debug          |-> StringFlag(EvalDefine(defines.__DEBUG__)),
      maxLength      |-> EvalDefine(defines.__MAX_LENGTH__),
      expirationTime |-> EvalDefine(defines.__EXPIRATION_TIME__) ]

NoBuild ==
    [ pc |-> "off", NODE_ENV |-> None, config |-> None, lets |-> DeclaredLets,
      env |-> InitialEnv, defines |-> None ]

\* process.env.__DEBUG__ as the build inherits it from its environment
InheritedDebug == {None, Some("true"), Some("false")}

\* the module is imported: the lets are declared, customerSettings.json is read
BuildLoaded(nodeEnv, config, debug) ==
    [ NoBuild EXCEPT !.pc = "loaded", !.NODE_ENV = nodeEnv, !.config = Some(config),
                     !.env.__DEBUG__ = debug ]

SetupClientServer ==
    /\ build.pc = "loaded"
    /\ LET r == setupClientServer(build.NODE_ENV, build.config[1], build.lets, build.env)
       IN  build' = [ build EXCEPT !.pc = "setup", !.lets = r.lets, !.env = r.env ]
    /\ UNCHANGED <<constants, session, ctor, created, console, lastOp, getRequest, proxy, disposal, inflight>>

\* webpack calls common(env, argv)
Common ==
    /\ build.pc = "setup"
    /\ build' = [ build EXCEPT !.pc = "defined",
                               !.defines = Some(DefinePlugin(build.lets, build.env)) ]
    /\ UNCHANGED <<constants, session, ctor, created, console, lastOp, getRequest, proxy, disposal, inflight>>

\* the browser loads the bundle: constants.js reads the defined globals
LoadBundle ==
    /\ build.pc = "defined"
    /\ build' = [ build EXCEPT !.pc = "bundled" ]
    /\ constants' = BundledConstants(build.defines[1])
    /\ UNCHANGED <<session, ctor, created, console, lastOp, getRequest, proxy, disposal, inflight>>

\* the bundled application constructs its Session
BundledConstruct(session_id, env) ==
    /\ build.pc = "bundled"
    /\ Construct(session_id, env)

-----------------------------------------------------------------------------
(* Session[Symbol.dispose] *)

MaxDispose == 2

NoDisposal == [ calls |-> 0, thrown |-> None, invoked |-> <<>>, released |-> {} ]

\* x[Symbol.dispose]() of a component: it releases what x holds, once
DisposeOf(d, name) ==
    [ d EXCEPT !.invoked = Append(@, name), !.released = @ \cup {name} ]

\* this._x[Symbol.dispose]() without the test of this._x
DisposeComponent_Unguarded(d, name, field) ==
    IF d.thrown # None THEN d
    ELSE IF field = None
    THEN [ d EXCEPT !.thrown = Some(Err("TypeError", "Cannot read properties of undefined",
                                        "none")) ]
    ELSE DisposeOf(d, name)

\* if (this._x) this._x[Symbol.dispose]();
DisposeComponent(d, name, field) ==
    IF d.thrown # None THEN d
    ELSE IF field = None THEN d
    ELSE DisposeOf(d, name)

\* [Symbol.dispose]()
dispose(d) ==
    LET d1 == DisposeComponent(d, "Chat", session._chat)
        d2 == DisposeComponent(d1, "Feedback", session._feedback)
        d3 == DisposeComponent(d2, "History", session._history)
        d4 == DisposeComponent(d3, "User", session._user)
    IN  DisposeComponent(d4, "Communicator", session._communicator)

Dispose ==
    /\ Callable
    /\ disposal.calls < MaxDispose
    /\ disposal' = [ dispose([ disposal EXCEPT !.invoked = <<>> ])
                         EXCEPT !.calls = disposal.calls + 1 ]
    /\ UNCHANGED <<constants, session, ctor, created, console, lastOp, getRequest, proxy,
                   build, inflight>>

-----------------------------------------------------------------------------
(* Two calls on one Session with their requests in flight together.  Each   *)
(* call has the request the Communicator sent for it, the promise of that   *)
(* request, and what the caller of the call has observed.                   *)

Calls == {"getHistory", "sendChat"}

NoCall ==
    [ state |-> "idle", arg |-> None, request |-> None, promise |-> NoRequest,
      observed |-> None ]

NoCalls == [ c \in Calls |-> NoCall ]

\* the requests sent so far
Issued == {c \in Calls : inflight[c].state # "idle"}

\* Communicator: a request carries the binding of the Communicator and a
\* correlation id of its own
CommunicatorRequest(communicator, path) ==
    [ path |-> path, session_id |-> communicator.session_id,
      user_id |-> communicator.user_id, correlation |-> Cardinality(Issued) + 1 ]

\* the backend's answer to one request
ResponseTo(request) == [ correlation |-> request.correlation, data |-> request.path ]

\* getHistory(): the request is sent and the method returns at once
CallGetHistory ==
    /\ Ready
    /\ inflight["getHistory"].state = "idle"
    /\ LET promise == [ NoRequest EXCEPT !.state = "pending" ]
       IN  inflight' = [ inflight EXCEPT !["getHistory"] =
               [ state    |-> "pending",
                 arg      |-> None,
                 request  |-> Some(CommunicatorRequest(session._history[1]._communicator,
                                                       "/api/history")),
                 promise  |-> promise,
                 observed |-> Some(getHistory(promise)) ] ]
    /\ UNCHANGED <<constants, session, ctor, created, console, lastOp, getRequest, proxy,
                   build, disposal>>

\* sendChat(question) with a valid question: Chat.sendQuestion sends the request
CallSendChat(text) ==
    /\ Ready
    /\ inflight["sendChat"].state = "idle"
    /\ ~InvalidQuestion(ChatObject(text))
    /\ inflight' = [ inflight EXCEPT !["sendChat"] =
           [ state    |-> "pending",
             arg      |-> Some(ChatObject(text)),
             request  |-> Some(CommunicatorRequest(session._chat[1]._communicator,
                                                   "/api/chat")),
             promise  |-> [ NoRequest EXCEPT !.state = "pending" ],
             observed |-> None ] ]
    /\ UNCHANGED <<constants, session, ctor, created, console, lastOp, getRequest, proxy,
                   build, disposal>>

\* what the caller of call c has once its promise fulfilled with `response`:
\* sendChat hands the Message over; getHistory has returned long before
ObservedOnResponse(c, call, response) ==
    IF c = "sendChat"
    THEN Some(sendChat(call.arg[1], response))
    ELSE call.observed

\* the response to the request of call c arrives
ResponseArrives(c) ==
    /\ inflight[c].state = "pending"
    /\ LET response == ResponseTo(inflight[c].request[1])
       IN  inflight' = [ inflight EXCEPT ![c] =
               [ @ EXCEPT !.state = "fulfilled",
                          !.promise = [ @ EXCEPT !.state = "fulfilled",
                                                 !.response = Some(response) ],
                          !.observed = ObservedOnResponse(c, inflight[c], response) ] ]
    /\ UNCHANGED <<constants, session, ctor, created, console, lastOp, getRequest, proxy,
                   build, disposal>>

-----------------------------------------------------------------------------

NoOp ==
    [ op |-> "none", arg |-> None, outcome |-> "none", thrown |-> None,
      value |-> None, delegated |-> 0, delegateValue |-> None, network |-> 0 ]

InitState ==
    /\ session = NewSession
    /\ ctor = [ state |-> "none", arg |-> None, thrown |-> None, failure |-> None ]
    /\ created = <<>>
    /\ console = {}
    /\ lastOp = NoOp
    /\ getRequest = NoRequest

\* nothing but the Session is running
OthersIdle ==
    /\ proxy = NoProxyRequest
    /\ build = NoBuild
    /\ disposal = NoDisposal
    /\ inflight = NoCalls
    /\ inflight = NoCalls

Init ==
    /\ constants \in ConstantsValues
    /\ InitState
    /\ OthersIdle

InitValidation ==
    /\ constants \in ValidationConstantsValues
    /\ InitState
    /\ OthersIdle

Next ==
    \/ \E a \in SessionIdArgs, env \in CtorEnv : Construct(a, env)
    \/ \E t \in Texts, r \in Replies : SendChat(t, r)
    \/ \E t \in Texts, r \in BOOLEAN : SendFeedback(t, r)
    \/ \E t \in Texts : SetSettings(t)
    \/ GetSettings
    \/ GetHistory
    \/ \E d \in ResponseData : ResolveGetRequest(d)
    \/ \E e \in TransportErrors : RejectGetRequest(e)

\* construction and use under every configuration of the flags
Spec == Init /\ [][Next]_vars

\* construction and use under every configured maximum size
SpecValidation == InitValidation /\ [][Next]_vars

\* the configuration nothing reads in a specification of its own
IdleConstants ==
    [ useauth |-> "undefined", debug |-> "undefined", maxLength |-> None,
      expirationTime |-> None ]

InitProxy ==
    /\ constants = IdleConstants
    /\ InitState
    /\ proxy \in {ProxyListening(f) : f \in ServerUseAuthValues}
    /\ build = NoBuild
    /\ disposal = NoDisposal
    /\ inflight = NoCalls

NextProxy ==
    \/ \E req \in Requests : Receive(req)
    \/ \E s \in BackendStatuses : BackendResolved(s)
    \/ BackendRejected

\* the proxy server answering one request
SpecProxy == InitProxy /\ [][NextProxy]_vars

InitBuild ==
    /\ constants = IdleConstants
    /\ InitState
    /\ proxy = NoProxyRequest
    /\ disposal = NoDisposal
    /\ inflight = NoCalls
    /\ build \in {BuildLoaded(e, c, d) : e \in NodeEnvValues, c \in CustomerSettings,
                                         d \in InheritedDebug}

NextBuild ==
    \/ SetupClientServer
    \/ Common
    \/ LoadBundle
    \/ \E a \in SessionIdArgs, env \in CtorEnv : BundledConstruct(a, env)

NextDispose ==
    \/ \E a \in SessionIdArgs, env \in CtorEnv : Construct(a, env)
    \/ Dispose

\* construction, then disposal of whatever the constructor handed out
SpecDispose == Init /\ [][NextDispose]_vars

NextConcurrent ==
    \/ \E a \in SessionIdArgs, env \in CtorEnv : Construct(a, env)
    \/ CallGetHistory
    \/ \E t \in Texts : CallSendChat(t)
    \/ \E c \in Calls : ResponseArrives(c)

\* getHistory and sendChat on one Session, their requests in flight together
SpecConcurrent == Init /\ [][NextConcurrent]_vars

\* the build, and the Session of the application it produces
SpecBuild == InitBuild /\ [][NextBuild]_vars

-----------------------------------------------------------------------------
(* Properties *)

\* user, communicator, session id and the four handlers are all set
ThrownType(op) == IF op.thrown = None THEN "none" ELSE op.thrown[1].type

ValidationErrors == {"ChatSessionError", "SettingsSessionError"}

\* C1 as stated: every Session the constructor returns has its user,
\* communicator, session id and four handlers set, under every configuration.
C1_NoPartialSession == ctor.state = "returned" => FullyInitialized

\* C1, amended: a Session the constructor returns is fully initialized unless
\* the configuration is debug and the construction failed, in which case the
\* failure was logged; in non-debug configuration no partial Session is returned.
C1_NoPartialSessionUnlessDebug ==
    ctor.state = "returned" =>
        \/ FullyInitialized
        \/ /\ Truthy(constants.debug)
           /\ ctor.failure # None
           /\ ctor.failure[1].type \in console

\* a construction that succeeded with authentication on and debug off
C1_Witness ==
    /\ ctor.state = "returned"
    /\ ~Truthy(constants.debug)
    /\ Truthy(constants.useauth)
    /\ FullyInitialized

\* C2: once a getHistory call that issued its request has ended for the
\* caller, the request's promise has settled, and a returned history is the
\* data of the response.
C2_RoundTripBeforeResult ==
    (lastOp.op = "getHistory" /\ lastOp.network = 1) =>
        /\ getRequest.state \in {"fulfilled", "rejected"}
        /\ lastOp.outcome = "returned" => lastOp.value = getRequest.response

\* C3: sendChat with an empty question throws ChatSessionError and neither
\* invokes Chat.sendQuestion nor uses the network, whatever the maximum size.
C3_EmptyQuestionRejected ==
    (lastOp.op = "sendChat" /\ Len(lastOp.arg[1].text) = 0) =>
        /\ lastOp.outcome = "thrown"
        /\ ThrownType(lastOp) = "ChatSessionError"
        /\ lastOp.delegated = 0
        /\ lastOp.network = 0

\* an empty question that was within a configured maximum size
C3_Witness ==
    /\ lastOp.op = "sendChat"
    /\ Len(lastOp.arg[1].text) = 0
    /\ constants.maxLength # None
    /\ getSizeInBytes(lastOp.arg[1]) <= constants.maxLength[1]
    /\ ThrownType(lastOp) = "ChatSessionError"

\* C4: for a non-empty question and a configured maximum, sendChat throws
\* ChatSessionError without any call when the serialized size is greater than
\* the maximum; at size = maximum it raises no validation error and, on a
\* Ready session, hands the question to Chat.sendQuestion exactly once.
C4_SizeBoundaryInclusive ==
    (lastOp.op = "sendChat" /\ Len(lastOp.arg[1].text) > 0 /\ constants.maxLength # None) =>
        LET size == getSizeInBytes(lastOp.arg[1])
            max  == constants.maxLength[1]
        IN  /\ size > max =>
                /\ ThrownType(lastOp) = "ChatSessionError"
                /\ lastOp.delegated = 0
                /\ lastOp.network = 0
            /\ size = max =>
                /\ ThrownType(lastOp) \notin ValidationErrors
                /\ Ready => /\ lastOp.outcome = "returned"
                            /\ lastOp.delegated = 1
                            /\ lastOp.network = 1

\* a question exactly as large as the maximum, delegated on a Ready session
C4_Witness ==
    /\ lastOp.op = "sendChat"
    /\ Len(lastOp.arg[1].text) > 0
    /\ constants.maxLength # None
    /\ getSizeInBytes(lastOp.arg[1]) = constants.maxLength[1]
    /\ Ready
    /\ lastOp.delegated = 1

\* C5: setSettings with a payload larger than the configured maximum throws
\* SettingsSessionError without invoking Settings.setSettings or the network;
\* with a payload at or below the maximum, on a Ready session, it invokes
\* Settings.setSettings exactly once.
C5_SettingsOversizeRejected ==
    (lastOp.op = "setSettings" /\ constants.maxLength # None) =>
        LET size == getSizeInBytes(lastOp.arg[1])
            max  == constants.maxLength[1]
        IN  /\ size > max =>
                /\ lastOp.outcome = "thrown"
                /\ ThrownType(lastOp) = "SettingsSessionError"
                /\ lastOp.delegated = 0
                /\ lastOp.network = 0
            /\ size <= max =>
                /\ ThrownType(lastOp) \notin ValidationErrors
                /\ Ready => /\ lastOp.outcome = "returned"
                            /\ lastOp.delegated = 1

\* an oversized settings payload rejected on a Ready session
C5_Witness ==
    /\ lastOp.op = "setSettings"
    /\ constants.maxLength # None
    /\ getSizeInBytes(lastOp.arg[1]) > constants.maxLength[1]
    /\ Ready
    /\ ThrownType(lastOp) = "SettingsSessionError"

\* C6: sendFeedback never raises a validation error; on a Ready session it
\* invokes Feedback.sendFeedback exactly once and returns that call's value,
\* for an oversized payload as for one within the limit.
C6_FeedbackOversizeNonFatal ==
    lastOp.op = "sendFeedback" =>
        /\ ThrownType(lastOp) \notin (ValidationErrors \cup {"SessionError"})
        /\ Ready => /\ lastOp.outcome = "returned"
                    /\ lastOp.delegated = 1
                    /\ lastOp.network = 1
                    /\ lastOp.value # None
                    /\ lastOp.value = lastOp.delegateValue

\* an oversized feedback, logged, sent and answered with failure
C6_Witness ==
    /\ lastOp.op = "sendFeedback"
    /\ Ready
    /\ constants.maxLength # None
    /\ getSizeInBytes(lastOp.arg[1]) > constants.maxLength[1]
    /\ "Feedback too long" \in console
    /\ lastOp.value = Some(FALSE)

\* the constructor obtained an authenticated User from new User(false)
IdentityResolved == \E i \in 1 .. Len(created) : created[i] = "User(false)"

\* C7: with authentication enabled and an authenticated identity resolved,
\* the User the Session holds is the authenticated one; an anonymous User is
\* held only otherwise.
C7_AuthenticatedUserKept ==
    (ctor.state = "returned" /\ session._user # None
        /\ Truthy(constants.useauth) /\ IdentityResolved) =>
        /\ ~session._user[1].anonymous
        /\ session._user[1].user_id = Some("auth-user")

\* C8 as stated: a session id was assigned and the caller supplied one (any
\* string, the empty one included): the session id is the supplied value.
C8_SuppliedIdVerbatim ==
    (ctor.state = "returned" /\ session.session_id # None /\ ctor.arg # None) =>
        session.session_id = ctor.arg

\* C8, amended: whenever the constructor assigns a session id, it is the
\* supplied value if that is a non-empty string, and a generated identifier
\* if no id or the empty string was supplied.
C8_NonEmptySuppliedIdVerbatim ==
    (ctor.state = "returned" /\ session.session_id # None) =>
        IF TruthyString(ctor.arg)
        THEN session.session_id = ctor.arg
        ELSE session.session_id[1] \in {env.uuid : env \in CtorEnv}

\* a Ready session that adopted the id it was given
C8_Witness ==
    /\ Ready
    /\ ctor.arg = Some("sid-1")
    /\ session.session_id = Some("sid-1")

\* C9: when the promise of getRequest rejects with error E, the caller of
\* getHistory observes the failure E.
C9_TransportErrorPropagated ==
    getRequest.state = "rejected" =>
        /\ lastOp.op = "getHistory"
        /\ lastOp.outcome = "thrown"
        /\ lastOp.thrown = getRequest.error

\* C10: a failure inside _initialize makes the constructor throw in non-debug
\* configuration, the AuthorizationError itself or a SessionError wrapping any
\* other error; in debug configuration the constructor never throws, the
\* failure is logged and createdAt and expiresAt stay unset.
C10_FailureFollowsDebugSwitch ==
    ctor.state # "none" =>
        IF Truthy(constants.debug)
        THEN /\ ctor.state = "returned"
             /\ ctor.failure # None =>
                    /\ ctor.failure[1].type \in console
                    /\ session.createdAt = None
                    /\ session.expiresAt = None
        ELSE /\ ctor.failure = None <=> ctor.state = "returned"
             /\ ctor.failure # None =>
                    IF ctor.failure[1].type = "AuthorizationError"
                    THEN ctor.thrown = ctor.failure
                    ELSE ctor.thrown[1].type = "SessionError"

\* an AuthorizationError re-raised by a non-debug constructor
C10_Witness ==
    /\ ~Truthy(constants.debug)
    /\ ctor.state = "thrown"
    /\ ctor.failure # None
    /\ ctor.failure[1].type = "AuthorizationError"
    /\ ctor.thrown = ctor.failure

\* the request the proxy has handled, and what became of it
ProxyHandled == proxy.pc \in {"waiting", "done"}

Forwarded(method, path) ==
    \E i \in 1 .. Len(proxy.backend) : proxy.backend[i] = BackendCall(method, path)

Sent(status) == \E i \in 1 .. Len(proxy.sends) : proxy.sends[i] = status

\* C11: POST /settings is forwarded to POST /api/settings exactly when the
\* server's useAuth flag is enabled; when it is disabled the handler sends 403
\* and calls no backend, and 403 is the answer of a request that carries
\* settings and passes the session check.
C11_SettingsGatedOnAuth ==
    (ProxyHandled /\ proxy.req[1].route = "POST /settings") =>
        /\ Forwarded("POST", "/api/settings") <=> Truthy(proxy.useAuth)
        /\ ~Truthy(proxy.useAuth) =>
              /\ Sent(403)
              /\ proxy.backend = <<>>
              /\ proxy.pc = "done"
              /\ (proxy.req[1].hasField /\ proxy.req[1].session = "valid") =>
                    proxy.sends = <<403>>

\* a well-formed POST /settings refused because the flag is off
C11_Witness ==
    /\ proxy.pc = "done"
    /\ proxy.req[1].route = "POST /settings"
    /\ proxy.req[1].hasField
    /\ proxy.useAuth = "false"
    /\ proxy.sends = <<403>>
    /\ proxy.backend = <<>>

\* C18: every route handler sends at most one response per request; a
\* request answered with 400 is not answered again.
C18_AtMostOneResponse == Len(proxy.sends) <= 1

\* C19: a POST rejected with 400 for its missing body field calls no backend.
C19_RejectedRequestNotForwarded ==
    (ProxyHandled /\ ~proxy.req[1].hasField
        /\ proxy.req[1].route \in {"POST /chat", "POST /feedback", "POST /settings"}) =>
        /\ proxy.sends # <<>> /\ proxy.sends[1] = 400
        /\ proxy.backend = <<>>
-----------------------------------------------------------------------------
(* The build: SpecBuild *)

Defined == build.pc \in {"defined", "bundled"}

Bundled == build.pc = "bundled"

\* C12: the values DefinePlugin defines for __MAX_LENGTH__,
\* __EXPIRATION_TIME__, __USEAUTH__, __APP_ID__, __APP_AUTHORITY__ and
\* __PRODUCT_TITLE__ are the values loaded from customerSettings.json, and
\* constants.maxLength, constants.expirationTime and constants.useauth in
\* the bundle are those configured values.
C12_DefinesAreConfiguredValues ==
    /\ Defined =>
          LET d == build.defines[1]
              c == build.config[1]
          IN  /\ EvalDefine(d.__MAX_LENGTH__) = c.maxLength
              /\ EvalDefine(d.__EXPIRATION_TIME__) = c.expirationTime
              /\ EvalDefine(d.__USEAUTH__) = c.useAuth
              /\ EvalDefine(d.__APP_ID__) = c.appId
              /\ EvalDefine(d.__APP_AUTHORITY__) = c.appAuthority
              /\ EvalDefine(d.__PRODUCT_TITLE__) = c.productTitle
    /\ Bundled =>
          /\ constants.maxLength = build.config[1].maxLength
          /\ constants.expirationTime = build.config[1].expirationTime
          /\ constants.useauth = BooleanFlag(build.config[1].useAuth)

\* C20: constants.debug in the bundle is truthy only for NODE_ENV
\* 'development'; for every other or unset NODE_ENV it is a defined falsy
\* value, and a Session whose construction fails re-raises the failure.
C20_DebugOnlyInDevelopment ==
    Bundled =>
        /\ Truthy(constants.debug) => build.NODE_ENV = Some("development")
        /\ build.NODE_ENV # Some("development") =>
              /\ constants.debug = "false"
              /\ ctor.state = "returned" /\ ctor.failure # None => ctor.thrown # None
-----------------------------------------------------------------------------
(* Session: the guards of _initializeHandlers *)

\* _initialize failed in a guard of _initializeHandlers
HandlerGuardFailed ==
    /\ ctor.failure # None
    /\ ctor.failure[1].msg \in {"Session ID not defined", "User not defined"}

UserLacksId == session._user = None \/ ~TruthyString(session._user[1].user_id)

-----------------------------------------------------------------------------
(* Session: the timestamps and the Communicator *)

\* _initialize completed and the constructor returned the Session
Constructed == ctor.state = "returned" /\ ctor.failure = None

Operations == {"sendChat", "sendFeedback", "getHistory", "getSettings", "setSettings"}

TimestampsOfTTL ==
    (Constructed /\ constants.expirationTime # None) =>
        /\ session.createdAt # None /\ session.createdAt[1].valid
        /\ session.expiresAt # None /\ session.expiresAt[1].valid
        /\ session.expiresAt[1].time - session.createdAt[1].time
              = constants.expirationTime[1]

TimestampsKept ==
    ctor.state = "returned" =>
        /\ session.createdAt' = session.createdAt
        /\ session.expiresAt' = session.expiresAt

\* C16: in every Session whose construction succeeded, with a TTL
\* configured, createdAt and expiresAt are set and expiresAt - createdAt is
\* constants.expirationTime; no step after the constructor returned
\* (sendChat, sendFeedback, getHistory, getSettings, setSettings) changes
\* either timestamp.
C16_ExpiryIsCreationPlusTTL == []TimestampsOfTTL /\ [][TimestampsKept]_vars

C16_Witness ==
    /\ Constructed
    /\ constants.expirationTime # None
    /\ lastOp.op \in Operations
    /\ session.expiresAt[1].time - session.createdAt[1].time = constants.expirationTime[1]

Count(log, name) == Cardinality({i \in DOMAIN log : log[i] = name})

Position(log, name) == CHOOSE i \in DOMAIN log : log[i] = name

Handlers == <<session._chat, session._feedback, session._history, session._settings>>

\* C17: in every Session whose _initialize completed, exactly one
\* Communicator was constructed, after the last User, with the Session's
\* session_id and its User's user_id, and the Chat, Feedback, History and
\* Settings handlers all hold that Communicator.
C17_OneSharedCommunicator ==
    Constructed =>
        /\ Count(created, "Communicator") = 1
        /\ \A i \in DOMAIN created :
              created[i] \in {"User(true)", "User(false)"}
                  => i < Position(created, "Communicator")
        /\ session._communicator # None
        /\ session._communicator[1].session_id = session.session_id[1]
        /\ session._communicator[1].user_id = session._user[1].user_id
        /\ \A i \in 1 .. 4 :
              /\ Handlers[i] # None
              /\ Handlers[i][1]._communicator = session._communicator[1]

C17_Witness ==
    /\ Constructed
    /\ Count(created, "Communicator") = 1
    /\ session._chat # None /\ session._settings # None
    /\ session._chat[1]._communicator = session._communicator[1]
    /\ session._settings[1]._communicator = session._communicator[1]
    /\ session._communicator[1].session_id = "sid-1"
-----------------------------------------------------------------------------
(* Session: disposal *)

Components == {"Chat", "Feedback", "History", "User", "Communicator"}

DisposeNeverThrows == disposal.thrown = None

\* a dispose call releases the components that were constructed, no others
ReleasedAreConstructed ==
    disposal.calls > 0 =>
        disposal.released =
            {c \in Components :
                \/ c = "Chat" /\ session._chat # None
                \/ c = "Feedback" /\ session._feedback # None
                \/ c = "History" /\ session._history # None
                \/ c = "User" /\ session._user # None
                \/ c = "Communicator" /\ session._communicator # None}

SecondDisposeReleasesNothing ==
    disposal.calls > 0 =>
        /\ disposal'.released = disposal.released
        /\ disposal'.thrown = None

\* C15: disposing a Session never throws, whatever subset of its components
\* was constructed (none included); the first call releases the constructed
\* components and a later call does not throw and releases nothing more.
C15_DisposeSafeAndIdempotent ==
    /\ [](DisposeNeverThrows /\ ReleasedAreConstructed)
    /\ [][SecondDisposeReleasesNothing]_vars

C15_Witness ==
    /\ disposal.calls = 2
    /\ disposal.thrown = None
    /\ session._user # None
    /\ session._chat # None
    /\ session._settings = None
    /\ disposal.released = {"Chat", "Feedback", "History", "User", "Communicator"}
-----------------------------------------------------------------------------
(* Session: concurrent calls *)

\* the call got the response to its own request
ReceivedOwnResponse(c) ==
    LET call == inflight[c]
    IN  /\ call.promise.response # None
        /\ call.promise.response[1].correlation = call.request[1].correlation
        /\ call.observed # None
        /\ call.observed[1].outcome = "returned"
        /\ call.observed[1].value = call.promise.response

\* the request of the call carries the binding of the Session
BindingKept(c) ==
    /\ inflight[c].request[1].session_id = session.session_id[1]
    /\ inflight[c].request[1].user_id = session._user[1].user_id

\* C13: with getHistory() and sendChat(...) in flight together on a Ready
\* Session, each call whose response arrived has received the response to
\* its own request, the two requests carry different correlation ids, and
\* both carry the Session's session_id/user binding.
C13_ConcurrentCallsGetOwnResponses ==
    Issued = Calls =>
        /\ \A c \in Calls : inflight[c].state = "fulfilled" => ReceivedOwnResponse(c)
        /\ \A c \in Calls : BindingKept(c)
        /\ inflight["getHistory"].request[1].correlation
              # inflight["sendChat"].request[1].correlation
====
